---------------------------- MODULE Spec2Model ----------------------------
(***************************************************************************)
(* Model of the quantstats parity scripts: debug_psr.py,                   *)
(* verify_python_serenity.py, debug_python_direct.py, verify_std_method.py *)
(*                                                                         *)
(* The scripts compute in IEEE doubles.  The model computes exactly, on    *)
(* numbers a + b*sqrt(m) (a, b rational, m a squarefree integer), and      *)
(* keeps what IEEE arithmetic adds to the reals: NaN, the two infinities   *)
(* and the sign of zero.  Rounding is not modelled.                        *)
(***************************************************************************)
EXTENDS Integers, Sequences, FiniteSets, TLC

(***************************************************************************)
(* Rationals <<nn, d>>, d > 0, in lowest terms.                            *)
(***************************************************************************)
Abs(x) == IF x < 0 THEN -x ELSE x

Sgn(x) == IF x < 0 THEN -1 ELSE IF x > 0 THEN 1 ELSE 0

RECURSIVE GCD(_, _)
GCD(a, b) ==
    IF b = 0 THEN a ELSE CHOOSE r \in {GCD(y, x % y) : x \in {a}, y \in {b}} : TRUE

Rat(nn, d) ==
    LET g == GCD(Abs(nn), Abs(d))
    IN  IF d < 0 THEN <<(-nn) \div g, (-d) \div g>> ELSE <<nn \div g, d \div g>>

RZero == <<0, 1>>

ROne == <<1, 1>>

RNeg(x) == <<-x[1], x[2]>>

RAbs(x) == <<Abs(x[1]), x[2]>>

RSgn(x) == Sgn(x[1])

RAdd(x, y) ==
    LET g == GCD(x[2], y[2])
        l == (x[2] \div g) * y[2]
    IN  Rat(x[1] * (l \div x[2]) + y[1] * (l \div y[2]), l)

RSub(x, y) == RAdd(x, RNeg(y))

RMul(x, y) ==
    IF x[1] = 0 \/ y[1] = 0 THEN RZero
    ELSE LET g1 == GCD(Abs(x[1]), y[2])
             g2 == GCD(Abs(y[1]), x[2])
         IN  <<(x[1] \div g1) * (y[1] \div g2), (x[2] \div g2) * (y[2] \div g1)>>

RInv(x) == IF x[1] < 0 THEN <<-x[2], -x[1]>> ELSE <<x[2], x[1]>>

RDiv(x, y) == RMul(x, RInv(y))

RLt(x, y) == RSgn(RSub(x, y)) < 0

RLe(x, y) == RSgn(RSub(x, y)) <= 0

(***************************************************************************)
(* The largest s with s*s dividing nn (nn > 0):                            *)
(* sqrt(nn) = s * sqrt(nn / (s*s)).                                        *)
(***************************************************************************)
RECURSIVE SquarePart(_, _)
SquarePart(nn, k) ==
    IF k * k > nn THEN 1
    ELSE IF nn % (k * k) = 0
         THEN CHOOSE r \in {j * SquarePart(v \div (j * j), j) : v \in {nn}, j \in {k}} : TRUE
    ELSE CHOOSE r \in {SquarePart(v, j + 1) : v \in {nn}, j \in {k}} : TRUE

\* the integer part of sqrt(nn)
RECURSIVE ISqrt(_, _)
ISqrt(nn, k) ==
    IF (k + 1) * (k + 1) > nn THEN k
    ELSE CHOOSE r \in {ISqrt(v, j + 1) : v \in {nn}, j \in {k}} : TRUE

(***************************************************************************)
(* The sign of p/q - (u + sqrt(m))/v for p, q > 0 and m no square, by the  *)
(* continued fractions of both sides: s is the integer part of sqrt(m).    *)
(* No product exceeds m, whatever the size of p and q.                     *)
(***************************************************************************)
RECURSIVE CfSign(_, _, _, _, _, _)
CfSign(p, q, u, v, s, m) ==
    LET ax == p \div q
        ay == (s + u) \div v
        u1 == v * ay - u
    IN  IF ax < ay THEN -1
        ELSE IF ax > ay THEN 1
        ELSE IF p % q = 0 THEN -1
        ELSE CHOOSE r \in {-CfSign(q1, p1, u2, v1, s, m) :
                              q1 \in {q}, p1 \in {p % q}, u2 \in {u1},
                              v1 \in {(m - u1 * u1) \div v}} : TRUE

\* the sign of |a| - |b|*sqrt(m), a and b rationals other than 0
SurdSign(a, b, m) ==
    CHOOSE r \in {CfSign(x[1], x[2], 0, 1, ISqrt(m, 0), m) :
                    x \in {RAbs(RDiv(a, b))}} : TRUE

(***************************************************************************)
(* Doubles.  A finite number is a + b*sqrt(m); neg is the sign bit, which  *)
(* says something the value does not only for a zero.                      *)
(*                                                                         *)
(* Python passes values.  An operation F comes as FV, on values, and as F, *)
(* which evaluates each argument once (a variable bound over a singleton   *)
(* set holds a value) and applies FV.                                      *)
(***************************************************************************)
NaN == [k |-> "nan"]

Inf(neg) == [k |-> "inf", neg |-> neg]

IsFin(x) == x.k = "fin"

IsNaN(x) == x.k = "nan"

IsInf(x) == x.k = "inf"

\* a root record is sqrt(of / over), signed by neg: of and over are finite and
\* positive, and the quotient, which is irrational, is not carried out
IsRoot(x) == x.k = "root"

\* the sign of a + b*sqrt(m), m squarefree: zero only when a = b = 0
QSign(a, b, m) ==
    LET sa == RSgn(a)
        sb == RSgn(b)
    IN  IF sb = 0 THEN sa
        ELSE IF sa = 0 THEN sb
        ELSE IF sa = sb THEN sa
        ELSE sa * SurdSign(a, b, m)

Fin(a, b, m, negzero) ==
    LET mm == IF b = RZero THEN 1 ELSE m
        aa == IF mm = 1 /\ b # RZero THEN RAdd(a, b) ELSE a
        bb == IF mm = 1 THEN RZero ELSE b
        s  == QSign(aa, bb, mm)
    IN  [k |-> "fin", a |-> aa, b |-> bb, m |-> mm,
         neg |-> IF s = 0 THEN negzero ELSE s < 0]

Q(r) == Fin(r, RZero, 1, FALSE)

Z(i) == Q(<<i, 1>>)

NSign(x) == QSign(x.a, x.b, x.m)

IsZero(x) == IsFin(x) /\ x.a = RZero /\ x.b = RZero

IsRational(x) == IsFin(x) /\ x.b = RZero

\* the sign bit of any number but NaN
SignBit(x) == x.neg

NNegV(x) ==
    CASE IsNaN(x) -> NaN
      [] IsInf(x) -> Inf(~x.neg)
      [] IsRoot(x) -> [x EXCEPT !.neg = ~x.neg]
      [] IsFin(x) -> Fin(RNeg(x.a), RNeg(x.b), x.m, ~x.neg)

NNeg(x) == CHOOSE r \in {NNegV(v) : v \in {x}} : TRUE

NAbsV(x) ==
    CASE IsNaN(x) -> NaN
      [] IsInf(x) -> Inf(FALSE)
      [] IsRoot(x) -> [x EXCEPT !.neg = FALSE]
      [] IsFin(x) -> IF x.neg THEN NNeg(x) ELSE x

NAbs(x) == CHOOSE r \in {NAbsV(v) : v \in {x}} : TRUE

\* finite numbers of one field Q(sqrt(m)) can be added
SameField(x, y) == x.b = RZero \/ y.b = RZero \/ x.m = y.m

NAddV(x, y) ==
    CASE IsNaN(x) \/ IsNaN(y) -> NaN
      [] IsInf(x) /\ IsInf(y) -> IF x.neg = y.neg THEN x ELSE NaN
      [] IsInf(x) /\ ~IsNaN(y) /\ ~IsInf(y) -> x
      [] IsInf(y) /\ ~IsNaN(x) /\ ~IsInf(x) -> y
      [] IsFin(x) /\ IsFin(y) /\ SameField(x, y) ->
            Fin(RAdd(x.a, y.a), RAdd(x.b, y.b),
                IF x.b # RZero THEN x.m ELSE y.m,
                IsZero(x) /\ IsZero(y) /\ x.neg /\ y.neg)

NAdd(x, y) == CHOOSE r \in {NAddV(v, w) : v \in {x}, w \in {y}} : TRUE

NSub(x, y) == NAdd(x, NNeg(y))

\* b1*sqrt(m1) * b2*sqrt(m2), m1 and m2 squarefree
SurdMul(b1, m1, b2, m2) ==
    LET g == GCD(m1, m2)
    IN  Fin(RZero, RMul(RMul(b1, b2), <<g, 1>>), (m1 \div g) * (m2 \div g), FALSE)

NMulV(x, y) ==
    CASE IsNaN(x) \/ IsNaN(y) -> NaN
      [] IsInf(x) /\ ~IsNaN(y) -> IF IsZero(y) THEN NaN ELSE Inf(x.neg # y.neg)
      [] IsInf(y) /\ IsFin(x) -> IF IsZero(x) THEN NaN ELSE Inf(x.neg # y.neg)
      [] IsFin(x) /\ IsFin(y) /\ SameField(x, y) ->
            LET m == IF x.b # RZero THEN x.m ELSE y.m
            IN  Fin(RAdd(RMul(x.a, y.a), RMul(RMul(x.b, y.b), <<m, 1>>)),
                    RAdd(RMul(x.a, y.b), RMul(x.b, y.a)), m, x.neg # y.neg)
      [] IsFin(x) /\ IsFin(y) /\ ~SameField(x, y) /\ x.a = RZero /\ y.a = RZero ->
            SurdMul(x.b, x.m, y.b, y.m)

NMul(x, y) == CHOOSE r \in {NMulV(v, w) : v \in {x}, w \in {y}} : TRUE

\* 1 / (a + b*sqrt(m)) = (a - b*sqrt(m)) / (a*a - b*b*m), for a nonzero number
NInvV(x) ==
    LET den == RSub(RMul(x.a, x.a), RMul(RMul(x.b, x.b), <<x.m, 1>>))
    IN  Fin(RDiv(x.a, den), RDiv(RNeg(x.b), den), x.m, FALSE)

NInv(x) == CHOOSE r \in {NInvV(v) : v \in {x}} : TRUE

\* sqrt of a rational r > 0
RSqrt(r) ==
    LET nn == r[1] * r[2]
        s == SquarePart(nn, 2)
    IN  Fin(RZero, Rat(s, r[2]), nn \div (s * s), FALSE)

NSqrtV(x) ==
    CASE IsNaN(x) -> NaN
      [] IsInf(x) -> IF x.neg THEN NaN ELSE x
      [] IsFin(x) /\ IsZero(x) -> x
      [] IsFin(x) /\ ~IsZero(x) /\ x.neg -> NaN
      [] IsFin(x) /\ ~IsZero(x) /\ ~x.neg ->
            IF x.b = RZero THEN RSqrt(x.a)
            ELSE [k |-> "root", neg |-> FALSE, of |-> x, over |-> Z(1)]

NSqrt(x) == CHOOSE r \in {NSqrtV(v) : v \in {x}} : TRUE

\* x * x = SqNum(x) / SqDen(x)
SqNum(x) == IF IsRoot(x) THEN x.of ELSE NMul(x, x)

SqDen(x) == IF IsRoot(x) THEN x.over ELSE Z(1)

\* x * x < y * y
SqLt(x, y) == NSign(NSub(NMul(SqNum(x), SqDen(y)), NMul(SqNum(y), SqDen(x)))) < 0

\* x / y for a y that is no root
NDivPlainV(x, y) ==
    CASE IsNaN(x) \/ IsNaN(y) -> NaN
      [] IsInf(x) /\ IsInf(y) -> NaN
      [] IsInf(x) /\ ~IsInf(y) /\ ~IsNaN(y) -> Inf(x.neg # y.neg)
      [] IsInf(y) /\ ~IsInf(x) /\ ~IsNaN(x) -> Fin(RZero, RZero, 1, x.neg # y.neg)
      [] IsFin(x) /\ IsFin(y) /\ IsZero(y) ->
            IF IsZero(x) THEN NaN ELSE Inf(x.neg # y.neg)
      [] IsFin(x) /\ IsFin(y) /\ ~IsZero(y) ->
            IF IsZero(x) THEN Fin(RZero, RZero, 1, x.neg # y.neg)
            ELSE NMul(x, NInv(y))

NDivPlain(x, y) == CHOOSE r \in {NDivPlainV(v, w) : v \in {x}, w \in {y}} : TRUE

\* x / sqrt(of / over) = sign * sqrt(x*x*over / of)
NDivV(x, y) ==
    IF IsRoot(y) /\ IsNaN(x) THEN NaN
    ELSE IF IsRoot(y) /\ IsInf(x) THEN Inf(x.neg # y.neg)
    ELSE IF IsRoot(y) /\ IsZero(x) THEN Fin(RZero, RZero, 1, x.neg # y.neg)
    ELSE IF IsRoot(y)
         THEN [k |-> "root", neg |-> x.neg # y.neg,
               of |-> NMul(SqNum(x), y.over), over |-> NMul(SqDen(x), y.of)]
    ELSE NDivPlain(x, y)

NDiv(x, y) == CHOOSE r \in {NDivV(v, w) : v \in {x}, w \in {y}} : TRUE

\* x < y on numbers neither of which is NaN
NLtOrdV(x, y) ==
    CASE IsInf(x) -> x.neg /\ ~(IsInf(y) /\ y.neg)
      [] ~IsInf(x) /\ IsInf(y) -> ~y.neg
      [] IsFin(x) /\ IsFin(y) /\ SameField(x, y) -> NSign(NSub(x, y)) < 0
      [] ~IsInf(x) /\ ~IsInf(y) /\ ~(IsFin(x) /\ IsFin(y) /\ SameField(x, y)) ->
            LET zx == IsZero(x)
                zy == IsZero(y)
                nx == ~zx /\ x.neg
                ny == ~zy /\ y.neg
                px == ~zx /\ ~x.neg
                py == ~zy /\ ~y.neg
            IN  IF nx /\ ~ny THEN TRUE
                ELSE IF px /\ ~py THEN FALSE
                ELSE IF zx THEN py
                ELSE IF px THEN SqLt(x, y)
                ELSE SqLt(y, x)

NLtOrd(x, y) == CHOOSE r \in {NLtOrdV(v, w) : v \in {x}, w \in {y}} : TRUE

\* the comparisons of IEEE doubles: false when either side is NaN, -0 = +0
NLt(x, y) == ~IsNaN(x) /\ ~IsNaN(y) /\ NLtOrd(x, y)

NLe(x, y) == ~IsNaN(x) /\ ~IsNaN(y) /\ ~NLtOrd(y, x)

NEq(x, y) == NLe(x, y) /\ NLe(y, x)

(***************************************************************************)
(* pandas / numpy reductions on a sequence of doubles.                     *)
(***************************************************************************)
None == [k |-> "none"]

IsNone(x) == x.k = "none"

RECURSIVE SumFrom(_, _, _)
SumFrom(s, i, acc) ==
    IF i > Len(s) THEN acc
    ELSE CHOOSE r \in {SumFrom(s, i + 1, a) : a \in {NAdd(acc, s[i])}} : TRUE

SumSeqV(s) == SumFrom(s, 1, Z(0))

SumSeq(s) == CHOOSE r \in {SumSeqV(v) : v \in {s}} : TRUE

\* pandas drops NaN before it reduces (skipna=True)
DropNaN(s) == SelectSeq(s, LAMBDA v : ~IsNaN(v))

\* Series.sum()
Sum(s) == SumSeq(DropNaN(s))

MeanV(t) == IF t = <<>> THEN NaN ELSE NDiv(SumSeq(t), Z(Len(t)))

\* Series.mean(): NaN for a series with no value left
Mean(s) == CHOOSE r \in {MeanV(t) : t \in {DropNaN(s)}} : TRUE

RECURSIVE InsertV(_, _)
InsertV(sorted, v) ==
    IF sorted = <<>> THEN <<v>>
    ELSE IF NLt(v, sorted[1]) THEN <<v>> \o sorted
    ELSE <<sorted[1]>> \o InsertV(Tail(sorted), v)

Insert(sorted, v) == CHOOSE r \in {InsertV(t, w) : t \in {sorted}, w \in {v}} : TRUE

RECURSIVE SortFrom(_, _, _)
SortFrom(s, i, acc) ==
    IF i > Len(s) THEN acc ELSE SortFrom(s, i + 1, Insert(acc, s[i]))

Sort(s) == CHOOSE r \in {SortFrom(v, 1, <<>>) : v \in {s}} : TRUE

Min2(a, b) == IF a < b THEN a ELSE b

QuantileV(t, q) ==
    LET nn    == Len(t)
        hn   == (nn - 1) * q[1]
        lo   == hn \div q[2]
        frac == Rat(hn % q[2], q[2])
        hi   == Min2(lo + 1, nn - 1)
    IN  IF nn = 0 THEN NaN
        ELSE NAdd(t[lo + 1], NMul(NSub(t[hi + 1], t[lo + 1]), Q(frac)))

\* Series.quantile(q), q = <<qn, qd>>: linear interpolation between the order
\* statistics at floor(h) and floor(h) + 1, h = (n - 1) * q
Quantile(s, q) == CHOOSE r \in {QuantileV(t, q) : t \in {Sort(DropNaN(s))}} : TRUE

\* each value less the mean
Deviations(t, mean) == [i \in 1..Len(t) |-> NSub(t[i], mean)]

Dev(t) == CHOOSE r \in {Deviations(t, mean) : mean \in {MeanV(t)}} : TRUE

\* each value to the power e >= 1
RECURSIVE NPow(_, _)
NPow(x, e) == IF e = 1 THEN x ELSE NMul(NPow(x, e - 1), x)

PowSeqV(s, e) == [i \in 1..Len(s) |-> NPow(s[i], e)]

PowSeq(s, e) == CHOOSE r \in {PowSeqV(v, e) : v \in {s}} : TRUE

\* sum of squared deviations over max(n - ddof, 0): 0/0 = NaN when n <= ddof
VarV(t, ddof) ==
    IF Len(t) <= ddof THEN NaN
    ELSE NDiv(SumSeq(PowSeq(Dev(t), 2)), Z(Len(t) - ddof))

Var(s, ddof) == CHOOSE r \in {VarV(t, ddof) : t \in {DropNaN(s)}} : TRUE

\* np.std(x, ddof) and Series.std(ddof)
Std(s, ddof) == NSqrt(Var(s, ddof))

StdPopulation(s) == Std(s, 0)

\* np.std(x, ddof=1), Series.std(): Bessel's correction
SampleStd(s) == Std(s, 1)

(***************************************************************************)
(* verify_python_serenity.py                                               *)
(***************************************************************************)
RECURSIVE CumProdFrom(_, _, _)
CumProdFrom(s, i, acc) ==
    IF i > Len(s) THEN acc
    ELSE CHOOSE r \in {CumProdFrom(s, i + 1, a) :
                         a \in {Append(acc, NMul(acc[Len(acc)], s[i]))}} : TRUE

\* Series.cumprod()
CumProd(s) == IF s = <<>> THEN <<>> ELSE CumProdFrom(s, 2, <<s[1]>>)

PricesV(rets) == CumProd([i \in 1..Len(rets) |-> NAdd(Z(1), rets[i])])

\* (1 + returns).cumprod()
Prices(rets) == CHOOSE r \in {PricesV(v) : v \in {rets}} : TRUE

NMax(a, b) == IF NLt(a, b) THEN b ELSE a

RECURSIVE ExpandingMaxFrom(_, _, _)
ExpandingMaxFrom(p, i, acc) ==
    IF i > Len(p) THEN acc
    ELSE CHOOSE r \in {ExpandingMaxFrom(p, i + 1, a) :
                         a \in {Append(acc, NMax(acc[Len(acc)], p[i]))}} : TRUE

ExpandingMaxFromOne(p) ==
    IF p = <<>> THEN <<>> ELSE ExpandingMaxFrom(p, 2, <<NMax(Z(1), p[1])>>)

\* prices.expanding().max()
ExpandingMax(p) == IF p = <<>> THEN <<>> ELSE ExpandingMaxFrom(p, 2, <<p[1]>>)

DrawdownsInverted(prices, cum_max) ==
    [i \in 1..Len(prices) |-> NSub(NDiv(cum_max[i], prices[i]), Z(1))]

\* (prices / cum_max) - 1
Drawdowns(prices, cum_max) ==
    [i \in 1..Len(prices) |-> NSub(NDiv(prices[i], cum_max[i]), Z(1))]

DrawdownsOfPrices(prices) ==
    CHOOSE r \in {Drawdowns(prices, cum_max) : cum_max \in {ExpandingMax(prices)}} : TRUE

to_drawdown_series(rets) ==
    CHOOSE r \in {DrawdownsOfPrices(prices) : prices \in {Prices(rets)}} : TRUE

\* the selection with the comparison turned round
AtOrAbove(series, var) == SelectSeq(series, LAMBDA v : NLe(var, v))

AtOrBelow(series, var) == SelectSeq(series, LAMBDA v : NLe(v, var))

Below(series, var) == SelectSeq(series, LAMBDA v : NLt(v, var))

\* series[series <= var].mean()
MeanAtOrBelow(series, var) == Mean(AtOrBelow(series, var))

\* series[series < var].mean()
MeanBelow(series, var) == Mean(Below(series, var))

cvar_quantile(series, confidence) ==
    CHOOSE r \in {MeanAtOrBelow(series, var) :
                    var \in {Quantile(series, RSub(ROne, confidence))}} : TRUE

\* the root of the mean drawdown, the squares left out
ulcer_index_nosquare(rets) == NSqrt(Mean(to_drawdown_series(rets)))

\* np.sqrt((dd ** 2).mean())
ulcer_index(rets) == NSqrt(Mean(PowSeq(to_drawdown_series(rets), 2)))

\* json.loads of the results file after .replace('NaN', 'null')
JsonLoad(x) == IF IsNaN(x) THEN None ELSE x

RelErrorPctV(a, b) == NMul(NAbs(NDiv(NSub(a, b), b)), Z(100))

\* abs((a - b) / b) * 100
RelErrorPct(a, b) == CHOOSE r \in {RelErrorPctV(v, w) : v \in {a}, w \in {b}} : TRUE

(***************************************************************************)
(* debug_psr.py                                                            *)
(***************************************************************************)
\* an exception leaving a function
Raised(e) == [k |-> "raised", exc |-> e]

IsRaised(x) == x.k = "raised"

\* a / b on floats: x / 0 is an infinity or NaN, with a warning
NumpyDiv(a, b) == NDiv(Z(a), Z(b))

\* a / b on Python ints: a float, or ZeroDivisionError
PyDiv(a, b) == IF b = 0 THEN Raised("ZeroDivisionError") ELSE Q(Rat(a, b))

\* ((returns - mean) / std) ** e
Standardized(rets, e) ==
    CHOOSE r \in {PowSeq([i \in 1..Len(d) |-> NDiv(d[i], std)], e) :
                    d \in {Dev(rets)}, std \in {SampleStd(rets)}} : TRUE

\* np.mean: NaN for an empty array
NpMean(rets) == MeanV(rets)

\* mean / std * sqrt(252)
sharpe_simple(rets) ==
    NMul(NDiv(NpMean(rets), SampleStd(rets)), NSqrt(Z(252)))

SkewOf(c, rets) ==
    IF IsRaised(c) THEN c ELSE NMul(c, SumSeq(Standardized(rets, 3)))

\* (n / ((n-1) * (n-2))) * sum(((returns - mean) / std) ** 3)
skew_simple(rets) ==
    LET nn == Len(rets)
    IN  CHOOSE r \in {SkewOf(c, rets) : c \in {PyDiv(nn, (nn - 1) * (nn - 2))}} : TRUE

KurtosisOf(c, rets) ==
    LET nn == Len(rets)
    IN  IF IsRaised(c) THEN c
        ELSE NSub(NMul(c, SumSeq(Standardized(rets, 4))),
                  PyDiv(3 * (nn - 1) * (nn - 1), (nn - 2) * (nn - 3)))

kurtosis_simple_float(rets) ==
    LET nn == Len(rets)
    IN  NSub(NMul(NumpyDiv(nn * (nn + 1), (nn - 1) * (nn - 2) * (nn - 3)),
                  SumSeq(Standardized(rets, 4))),
             NumpyDiv(3 * (nn - 1) * (nn - 1), (nn - 2) * (nn - 3)))

\* (n*(n+1) / ((n-1)*(n-2)*(n-3))) * sum(((returns - mean) / std) ** 4)
\*     - 3*(n-1)**2 / ((n-2)*(n-3))
kurtosis_simple(rets) ==
    LET nn == Len(rets)
    IN  CHOOSE r \in {KurtosisOf(c, rets) :
                        c \in {PyDiv(nn * (nn + 1), (nn - 1) * (nn - 2) * (nn - 3))}} : TRUE

\* 0.5 * (1 + sign(x) * sqrt(1 - exp(-2 x^2 / pi))): 1/2 at 0, 0 and 1 at the
\* infinities (exp(-inf) = 0), and for any other x a number the model keeps as
\* cdf(x); the function is increasing in x
norm_cdf_simple(x) ==
    CASE IsNaN(x) -> NaN
      [] IsInf(x) -> IF x.neg THEN Z(0) ELSE Z(1)
      [] IsZero(x) -> Q(<<1, 2>>)
      [] OTHER -> [k |-> "cdf", x |-> x]

\* the argument norm_cdf_simple maps to p
CdfArg(p) ==
    CASE p.k = "cdf" -> p.x
      [] p = Z(0) -> Inf(TRUE)
      [] p = Z(1) -> Inf(FALSE)
      [] p = Q(<<1, 2>>) -> Z(0)

\* p <= q on values of norm_cdf_simple
CdfLe(p, q) == ~IsNaN(p) /\ ~IsNaN(q) /\ NLe(CdfArg(p), CdfArg(q))

\* the radicand with the skew term added
RadicandSkewAdded(sr2, skew_sr, kterm) ==
    NAdd(NAdd(NAdd(Z(1), NMul(Q(<<1, 2>>), sr2)), skew_sr),
         NMul(NDiv(kterm, Z(4)), sr2))

\* 1 + 0.5*sr^2 - skew*sr + (kterm/4)*sr^2, summed left to right
RadicandV(sr2, skew_sr, kterm) ==
    NAdd(NSub(NAdd(Z(1), NMul(Q(<<1, 2>>), sr2)), skew_sr),
         NMul(NDiv(kterm, Z(4)), sr2))

Radicand(sr, skew, kterm) ==
    CHOOSE r \in {RadicandV(sr2, skew_sr, kterm) :
                    sr2 \in {NMul(sr, sr)}, skew_sr \in {NMul(skew, sr)}} : TRUE

\* the standard error with the kurtosis term k/4
SigmaSrExcess(sr, skew, kurt, nn) ==
    NSqrt(NDiv(Radicand(sr, skew, kurt), Z(nn - 1)))

\* lines 61-64: the kurtosis term is (kurtosis_val - 3) / 4
SigmaSr(sr, skew, kurt, nn) ==
    NSqrt(NDiv(Radicand(sr, skew, NSub(kurt, Z(3))), Z(nn - 1)))

\* verify_std_method.py, lines 22-45
test_std_calculation(rets) ==
    LET nn == Len(rets)
    IN  IF nn = 0 THEN Raised("ZeroDivisionError")
        ELSE [k |-> "stds",
              pandas_default |-> Std(rets, 1),
              pandas_ddof0   |-> Std(rets, 0),
              pandas_ddof1   |-> Std(rets, 1),
              manual_sample  |-> NSqrt(NDiv(SumSeq(PowSeq(Dev(rets), 2)), Z(nn - 1))),
              manual_pop     |-> NSqrt(NDiv(SumSeq(PowSeq(Dev(rets), 2)), Z(nn))),
              numpy_default  |-> Std(rets, 0),
              numpy_ddof1    |-> Std(rets, 1)]

(***************************************************************************)
(* State.  Every script loads one return series; each keeps its results in *)
(* module-level names, which are the variables here.  pc is the statement  *)
(* the running script is at; exc is the exception that ended it.           *)
(***************************************************************************)
VARIABLES returns, pc, exc,
          dd, cvar_dd, pitfall, ulcer, serenity, python_serenity, error,
          cvar_simple, serenity_alt, alt_error,
          sharpe_val, skew_val, kurtosis_val, n, sigma_sr, ratio, psr, prev,
          std_res, confidence, var_val, manual_cvar

Unset == [k |-> "unset"]

IsSet(x) == x.k # "unset"

serVars == <<dd, cvar_dd, pitfall, ulcer, serenity, python_serenity, error,
             cvar_simple, serenity_alt, alt_error>>

psrVars == <<sharpe_val, skew_val, kurtosis_val, n, sigma_sr, ratio, psr, prev, std_res>>

cvVars == <<confidence, var_val, manual_cvar>>

vars == <<returns, pc, exc, serVars, psrVars, cvVars>>

\* the longest return series the model loads
MaxLen == 3

RetValues == {Q(<<-2, 1>>), Q(<<-1, 1>>), Q(<<-1, 2>>), Z(0), Q(<<1, 2>>), Z(1)}

SeqsUpTo(S, len) == UNION {[1..i -> S] : i \in 0..len}

\* cvar_quantile's default confidence, 0.95
Confidence == <<19, 20>>

SerInit ==
    /\ dd = Unset /\ cvar_dd = Unset /\ pitfall = Unset /\ ulcer = Unset
    /\ serenity = Unset /\ python_serenity = Unset /\ error = Unset
    /\ cvar_simple = Unset /\ serenity_alt = Unset /\ alt_error = Unset

PsrIdle ==
    /\ sharpe_val = Unset /\ skew_val = Unset /\ kurtosis_val = Unset /\ n = Unset
    /\ sigma_sr = Unset /\ ratio = Unset /\ psr = Unset /\ prev = Unset
    /\ std_res = Unset

CvIdle == var_val = Unset /\ manual_cvar = Unset

\* verify_python_serenity.py starts on a loaded return series
Init ==
    /\ returns \in SeqsUpTo(RetValues, MaxLen)
    /\ pc = "dd"
    /\ exc = "none"
    /\ confidence = Confidence
    /\ SerInit
    /\ PsrIdle
    /\ CvIdle

\* line 25
ToDrawdownSeries ==
    /\ pc = "dd"
    /\ dd' = to_drawdown_series(returns)
    /\ pc' = "cvar"
    /\ UNCHANGED <<returns, exc, cvar_dd, pitfall, ulcer, serenity, python_serenity,
                   error, cvar_simple, serenity_alt, alt_error,
                   psrVars, cvVars>>

\* line 36
CvarQuantile ==
    /\ pc = "cvar"
    /\ cvar_dd' = cvar_quantile(dd, confidence)
    /\ pc' = "pitfall"
    /\ UNCHANGED <<returns, exc, dd, pitfall, ulcer, serenity, python_serenity,
                   error, cvar_simple, serenity_alt, alt_error,
                   psrVars, cvVars>>

\* line 40
Pitfall ==
    /\ pc = "pitfall"
    /\ pitfall' = NDiv(NNeg(cvar_dd), SampleStd(returns))
    /\ pc' = "ulcer"
    /\ UNCHANGED <<returns, exc, dd, cvar_dd, ulcer, serenity, python_serenity,
                   error, cvar_simple, serenity_alt, alt_error,
                   psrVars, cvVars>>

\* line 49
UlcerIndex ==
    /\ pc = "ulcer"
    /\ ulcer' = ulcer_index(returns)
    /\ pc' = "serenity"
    /\ UNCHANGED <<returns, exc, dd, cvar_dd, pitfall, serenity, python_serenity,
                   error, cvar_simple, serenity_alt, alt_error,
                   psrVars, cvVars>>

\* (returns.sum() - 0) / (ulcer * pitfall)
SerenityOf(rets, u, p) == NDiv(NSub(Sum(rets), Z(0)), NMul(u, p))

\* line 53
Serenity ==
    /\ pc = "serenity"
    /\ serenity' = SerenityOf(returns, ulcer, pitfall)
    /\ pc' = "load"
    /\ UNCHANGED <<returns, exc, dd, cvar_dd, pitfall, ulcer, python_serenity,
                   error, cvar_simple, serenity_alt, alt_error,
                   psrVars, cvVars>>

\* lines 57-61: the reference value, from a results file that a run of the same
\* pipeline on the same series wrote
LoadPythonResults ==
    /\ pc = "load"
    /\ python_serenity' = JsonLoad(serenity)
    /\ pc' = "error"
    /\ UNCHANGED <<returns, exc, dd, cvar_dd, pitfall, ulcer, serenity,
                   error, cvar_simple, serenity_alt, alt_error,
                   psrVars, cvVars>>

\* line 64: arithmetic on None raises TypeError, which ends the script
Error ==
    /\ pc = "error"
    /\ IF IsNone(python_serenity)
       THEN /\ exc' = "TypeError"
            /\ pc' = "raised"
            /\ error' = error
       ELSE /\ error' = RelErrorPct(serenity, python_serenity)
            /\ pc' = "alt_cvar"
            /\ exc' = exc
    /\ UNCHANGED <<returns, dd, cvar_dd, pitfall, ulcer, serenity, python_serenity,
                   cvar_simple, serenity_alt, alt_error, psrVars, cvVars>>

\* lines 71-73
AltCvar ==
    /\ pc = "alt_cvar"
    /\ \E var_95 \in {Quantile(dd, <<1, 20>>)} :
          cvar_simple' = Mean(AtOrBelow(dd, var_95))
    /\ pc' = "alt_serenity"
    /\ UNCHANGED <<returns, exc, dd, cvar_dd, pitfall, ulcer, serenity,
                   python_serenity, error, serenity_alt, alt_error,
                   psrVars, cvVars>>

\* lines 79-80
AltSerenity ==
    /\ pc = "alt_serenity"
    /\ \E pitfall_alt \in {NDiv(NNeg(cvar_simple), SampleStd(returns))} :
          serenity_alt' = SerenityOf(returns, ulcer, pitfall_alt)
    /\ pc' = "alt_error"
    /\ UNCHANGED <<returns, exc, dd, cvar_dd, pitfall, ulcer, serenity,
                   python_serenity, error, cvar_simple, alt_error,
                   psrVars, cvVars>>

\* line 83
AltError ==
    /\ pc = "alt_error"
    /\ alt_error' = RelErrorPct(serenity_alt, python_serenity)
    /\ pc' = "done"
    /\ UNCHANGED <<returns, exc, dd, cvar_dd, pitfall, ulcer, serenity,
                   python_serenity, error, cvar_simple, serenity_alt,
                   psrVars, cvVars>>

Next ==
    \/ ToDrawdownSeries
    \/ CvarQuantile
    \/ Pitfall
    \/ UlcerIndex
    \/ Serenity
    \/ LoadPythonResults
    \/ Error
    \/ AltCvar
    \/ AltSerenity
    \/ AltError

Spec == Init /\ [][Next]_vars

(***************************************************************************)
(* debug_psr.py and verify_std_method.py, on one loaded return series.     *)
(***************************************************************************)
\* the longest return series debug_psr.py loads in the model
MaxLenPsr == 4

PsrValues == {Q(<<-1, 2>>), Z(0), Q(<<1, 2>>), Z(1)}

InitPsr ==
    /\ returns \in SeqsUpTo(PsrValues, MaxLenPsr)
    /\ pc = "sharpe"
    /\ exc = "none"
    /\ confidence = Confidence
    /\ SerInit
    /\ PsrIdle
    /\ CvIdle

\* line 50
CallSharpe ==
    /\ pc = "sharpe"
    /\ sharpe_val' = sharpe_simple(returns)
    /\ pc' = "skew"
    /\ UNCHANGED <<returns, exc, serVars, cvVars, skew_val, kurtosis_val, n,
                   sigma_sr, ratio, psr, prev, std_res>>

\* line 51: an exception ends the script
CallSkew ==
    /\ pc = "skew"
    /\ \E r \in {skew_simple(returns)} :
          IF IsRaised(r)
          THEN skew_val' = skew_val /\ exc' = r.exc /\ pc' = "raised"
          ELSE skew_val' = r /\ exc' = exc /\ pc' = "kurtosis"
    /\ UNCHANGED <<returns, serVars, cvVars, sharpe_val, kurtosis_val, n,
                   sigma_sr, ratio, psr, prev, std_res>>

\* lines 52-53
CallKurtosis ==
    /\ pc = "kurtosis"
    /\ \E r \in {kurtosis_simple(returns)} :
          IF IsRaised(r)
          THEN kurtosis_val' = kurtosis_val /\ n' = n /\ exc' = r.exc /\ pc' = "raised"
          ELSE kurtosis_val' = r /\ n' = Len(returns) /\ exc' = exc /\ pc' = "sigma"
    /\ UNCHANGED <<returns, serVars, cvVars, sharpe_val, skew_val,
                   sigma_sr, ratio, psr, prev, std_res>>

\* lines 61-64
ComputeSigmaSr ==
    /\ pc = "sigma"
    /\ sigma_sr' = SigmaSr(sharpe_val, skew_val, kurtosis_val, n)
    /\ pc' = "ratio"
    /\ UNCHANGED <<returns, exc, serVars, cvVars, sharpe_val, skew_val, kurtosis_val,
                   n, ratio, psr, prev, std_res>>

\* line 69
ComputeRatio ==
    /\ pc = "ratio"
    /\ ratio' = NDiv(sharpe_val, sigma_sr)
    /\ pc' = "psr"
    /\ UNCHANGED <<returns, exc, serVars, cvVars, sharpe_val, skew_val, kurtosis_val,
                   n, sigma_sr, psr, prev, std_res>>

\* line 73
ComputePsr ==
    /\ pc = "psr"
    /\ psr' = norm_cdf_simple(ratio)
    /\ pc' = "done"
    /\ UNCHANGED <<returns, exc, serVars, cvVars, sharpe_val, skew_val, kurtosis_val,
                   n, sigma_sr, ratio, prev, std_res>>

\* verify_std_method.py, line 56: a script of its own, on the same series
CallTestStd ==
    /\ std_res = Unset
    /\ pc \in {"sharpe", "skew", "kurtosis", "sigma", "ratio", "psr", "done", "raised"}
    /\ std_res' = test_std_calculation(returns)
    /\ UNCHANGED <<returns, pc, exc, serVars, cvVars, sharpe_val, skew_val,
                   kurtosis_val, n, sigma_sr, ratio, psr, prev>>

NextPsr ==
    \/ CallSharpe
    \/ CallSkew
    \/ CallKurtosis
    \/ ComputeSigmaSr
    \/ ComputeRatio
    \/ ComputePsr
    \/ CallTestStd

SpecPsr == InitPsr /\ [][NextPsr]_vars

(***************************************************************************)
(* Lines 60-74 of debug_psr.py as a function of the Sharpe ratio: the      *)
(* inputs are drawn from bounded sets, and the lines run a second time     *)
(* with a larger Sharpe ratio and the other inputs kept.                   *)
(***************************************************************************)
\* Sharpe ratios are the halves from -MaxSharpe to MaxSharpe
MaxSharpe == 2

\* skews are the integers from -MaxSkew to MaxSkew
MaxSkew == 3

SharpeValues == {Q(Rat(i, 2)) : i \in (-2 * MaxSharpe)..(2 * MaxSharpe)}

SkewValues == {Z(i) : i \in (-MaxSkew)..MaxSkew}

KurtValues == {Z(-1), Z(3), Z(5), Z(13)}

NValues == {2, 10}

InitMono ==
    /\ returns = <<>>
    /\ pc = "sigma"
    /\ exc = "none"
    /\ confidence = Confidence
    /\ SerInit
    /\ CvIdle
    /\ sharpe_val \in SharpeValues
    /\ skew_val \in SkewValues
    /\ kurtosis_val \in KurtValues
    /\ n \in NValues
    /\ sigma_sr = Unset /\ ratio = Unset /\ psr = Unset /\ prev = Unset
    /\ std_res = Unset

Rerun ==
    /\ pc = "done"
    /\ prev = Unset
    /\ prev' = [k |-> "run", sharpe_val |-> sharpe_val, sigma_sr |-> sigma_sr,
                ratio |-> ratio, psr |-> psr]
    /\ \E sr \in SharpeValues : NLt(sharpe_val, sr) /\ sharpe_val' = sr
    /\ sigma_sr' = Unset /\ ratio' = Unset /\ psr' = Unset
    /\ pc' = "sigma"
    /\ UNCHANGED <<returns, exc, serVars, cvVars, skew_val, kurtosis_val, n, std_res>>

NextMono ==
    \/ ComputeSigmaSr
    \/ ComputeRatio
    \/ ComputePsr
    \/ Rerun

SpecMono == InitMono /\ [][NextMono]_vars

(***************************************************************************)
(* The two tail means, cvar_quantile of verify_python_serenity.py and the  *)
(* manual check of debug_python_direct.py, on any series and confidence.   *)
(***************************************************************************)
CvValues == {Z(-2), Z(-1), Z(0), Z(1)}

ConfValues == {<<1, 4>>, <<1, 2>>, <<3, 4>>, <<19, 20>>}

InitCvar ==
    /\ returns = <<>>
    /\ pc = "var"
    /\ exc = "none"
    /\ dd \in SeqsUpTo(CvValues, MaxLen)
    /\ confidence \in ConfValues
    /\ cvar_dd = Unset /\ pitfall = Unset /\ ulcer = Unset
    /\ serenity = Unset /\ python_serenity = Unset /\ error = Unset
    /\ cvar_simple = Unset /\ serenity_alt = Unset /\ alt_error = Unset
    /\ PsrIdle
    /\ CvIdle

\* debug_python_direct.py, line 28: the VaR is the result of a library call,
\* the (1 - c)-quantile of the series or any other threshold
ValueAtRisk ==
    /\ pc = "var"
    /\ \E v \in {Quantile(dd, RSub(ROne, confidence))} \cup CvValues : var_val' = v
    /\ pc' = "manual"
    /\ UNCHANGED <<returns, exc, serVars, psrVars, confidence, manual_cvar>>

\* debug_python_direct.py, lines 35-36
ManualCvar ==
    /\ pc = "manual"
    /\ manual_cvar' = MeanBelow(dd, var_val)
    /\ pc' = "quantile"
    /\ UNCHANGED <<returns, exc, serVars, psrVars, confidence, var_val>>

\* verify_python_serenity.py, lines 31-34, applied to the series
ApplyCvarQuantile ==
    /\ pc = "quantile"
    /\ cvar_dd' = cvar_quantile(dd, confidence)
    /\ pc' = "done"
    /\ UNCHANGED <<returns, exc, psrVars, cvVars, dd, pitfall, ulcer, serenity,
                   python_serenity, error, cvar_simple, serenity_alt, alt_error>>

NextCvar ==
    \/ ValueAtRisk
    \/ ManualCvar
    \/ ApplyCvarQuantile

SpecCvar == InitCvar /\ [][NextCvar]_vars

(***************************************************************************)
(* Claims about verify_python_serenity.py, checked under Spec.             *)
(***************************************************************************)
\* dd holds the drawdown series once line 25 has run
HasDd == pc \in {"cvar", "pitfall", "ulcer", "serenity", "load", "error", "raised",
                 "alt_cvar", "alt_serenity", "alt_error", "done"}

AllAtMostZero(s) == \A i \in 1..Len(s) : NLe(s[i], Z(0))

AllZero(s) == \A i \in 1..Len(s) : NEq(s[i], Z(0))

NoNaN(s) == \A i \in 1..Len(s) : ~IsNaN(s[i])

NonDecreasing(s) == \A i \in 1..(Len(s) - 1) : NLe(s[i], s[i + 1])

\* C1 as stated: the drawdown series has the length of the return series and
\* every element is <= 0, for every input, returns <= -1 included.
C1_AllInputs ==
    HasDd => Len(dd) = Len(returns) /\ AllAtMostZero(dd)

\* C1, amended: the drawdown series has the length of the return series, and
\* every element is <= 0 when the first return is > -1 (the first price, and
\* so every running maximum, is then positive), whatever the later returns.
C1_FirstReturnAboveMinusOne ==
    HasDd => /\ Len(dd) = Len(returns)
             /\ (returns # <<>> /\ NLt(Z(-1), returns[1])) => AllAtMostZero(dd)

C1_Witness ==
    /\ HasDd
    /\ Len(returns) >= 2
    /\ NLt(Z(-1), returns[1])
    /\ \E i \in 2..Len(returns) : NLe(returns[i], Z(-1))
    /\ \E i \in 1..Len(dd) : NLt(dd[i], Z(0))

\* C2 as stated: the first drawdown is 0 when the first return is >= 0, and
\* equal to the first return (measured against a starting peak of 1) when the
\* first return is negative.
C2_PeakOfOne ==
    (HasDd /\ returns # <<>>) =>
        /\ NLe(Z(0), returns[1]) => NEq(dd[1], Z(0))
        /\ NLt(returns[1], Z(0)) => NEq(dd[1], returns[1])

\* C2, amended: the first peak is the first price 1 + r_0, not 1, so the first
\* drawdown is 0 for every first return but -1, the negative ones included; for
\* r_0 = -1 it is 0/0, NaN.
C2_FirstDrawdownZero ==
    (HasDd /\ returns # <<>>) =>
        IF NEq(returns[1], Z(-1)) THEN IsNaN(dd[1]) ELSE NEq(dd[1], Z(0))

C2_Witness ==
    /\ HasDd
    /\ returns # <<>>
    /\ NLt(returns[1], Z(0))
    /\ ~NEq(returns[1], Z(-1))
    /\ NEq(dd[1], Z(0))

UlcerFacts ==
    /\ NLe(Z(0), ulcer)
    /\ NEq(ulcer, Z(0)) <=> AllZero(dd)
    /\ AllZero(dd) <=> NonDecreasing(Prices(returns))

\* C8 as stated: for every return series the Ulcer Index is >= 0, and it is 0
\* iff every drawdown is 0, which is so exactly when the price series is
\* non-decreasing.
C8_AllInputs == IsSet(ulcer) => UlcerFacts

\* C8, amended: the same, for every non-empty return series whose drawdown
\* series holds no NaN (no running maximum of the price index is 0; so it is
\* whenever the first return is > -1).
C8_NoNaNDrawdown ==
    (IsSet(ulcer) /\ returns # <<>> /\ NoNaN(dd)) => UlcerFacts

C8_Witness ==
    /\ IsSet(ulcer)
    /\ Len(returns) >= 2
    /\ NoNaN(dd)
    /\ NLt(returns[1], Z(-1))
    /\ NLt(Z(0), ulcer)

\* C9: the pipeline compared with itself: every relative error is 0 and the
\* comparison never aborts, also when the reference value is 0 or undefined.
C9_RoundTripZero ==
    /\ exc = "none"
    /\ IsSet(error) => NEq(error, Z(0))
    /\ IsSet(alt_error) => NEq(alt_error, Z(0))

\* C10: with sample_std > 0 and ulcer_index > 0 the Serenity Index is finite
\* and has the sign of sum(returns); with ulcer_index or pitfall 0 the outcome is
\* an explicit undefined one, not the value of a division by zero.
C10_SerenityDefined ==
    IsSet(serenity) =>
        /\ (NLt(Z(0), SampleStd(returns)) /\ NLt(Z(0), ulcer)) =>
              /\ IsFin(serenity)
              /\ NSign(serenity) = NSign(Sum(returns))
        /\ (NEq(ulcer, Z(0)) \/ NEq(pitfall, Z(0))) => IsNone(serenity)

(***************************************************************************)
(* Claims about the tail means, checked under SpecCvar.                    *)
(***************************************************************************)
\* the (1 - c)-quantile of the series by linear interpolation
VarOf == Quantile(dd, RSub(ROne, confidence))

SomeAtOrBelow(v) == \E i \in 1..Len(dd) : NLe(dd[i], v)

SomeBelow(v) == \E i \in 1..Len(dd) : NLt(dd[i], v)

\* cvar_quantile, which selects with <=, is at most the VaR
InclusiveAtMostVar ==
    (IsSet(cvar_dd) /\ dd # <<>> /\ SomeAtOrBelow(VarOf)) => NLe(cvar_dd, VarOf)

\* C3 as claimed: on a non-empty series, for each confidence, the mean selected
\* with <= by cvar_quantile and the mean selected with < by the manual check
\* are both at most the VaR whenever a value lies at or below the VaR.
C3_AtOrBelowSuffices ==
    /\ InclusiveAtMostVar
    /\ (IsSet(manual_cvar) /\ dd # <<>> /\ NEq(var_val, VarOf)
            /\ SomeAtOrBelow(var_val)) => NLe(manual_cvar, var_val)

\* C3 as amended: the mean selected with <= is at most the VaR whenever a value
\* lies at or below the VaR; the mean selected with < is at most its threshold
\* whenever a value lies strictly below it.
C3_StrictNeedsValueBelow ==
    /\ InclusiveAtMostVar
    /\ (IsSet(manual_cvar) /\ dd # <<>> /\ SomeBelow(var_val)) =>
            NLe(manual_cvar, var_val)

\* both means taken at the quantile, which one value equals and another is below
C3_Witness ==
    /\ pc = "done"
    /\ NEq(var_val, VarOf)
    /\ \E i \in 1..Len(dd) : NEq(dd[i], var_val)
    /\ SomeBelow(var_val)
    /\ NLt(manual_cvar, cvar_dd)
    /\ NLt(cvar_dd, var_val)

(***************************************************************************)
(* Claims about debug_psr.py and verify_std_method.py, checked under       *)
(* SpecPsr.                                                                *)
(***************************************************************************)
\* C4: for a series of length at least 4 the standard error is
\* sqrt((1 + 0.5*sr^2 - skew*sr + (k/4)*sr^2) / (n - 1)), k being the excess
\* kurtosis as kurtosis_simple returns it, with no second subtraction of 3.
C4_ExcessKurtosisTerm ==
    (IsSet(sigma_sr) /\ Len(returns) >= 4) =>
        sigma_sr = SigmaSrExcess(sharpe_val, skew_val, kurtosis_val, n)

\* all returns equal to one r # 0, on a series of length at least 2
ConstantSeries ==
    /\ Len(returns) >= 2
    /\ ~IsZero(returns[1])
    /\ \A i \in 1..Len(returns) : returns[i] = returns[1]

\* C5: on a constant series the Sharpe computation and the PSR end in an
\* explicit DegenerateInputError; no division is made and no NaN or infinite
\* value is returned.
C5_ConstantSeriesDegenerate ==
    (ConstantSeries /\ pc # "sharpe") =>
        /\ exc = "DegenerateInputError"
        /\ ~IsSet(sharpe_val)
        /\ ~IsSet(psr)

\* the script is past the call of skew_simple, of kurtosis_simple
PastSkew == pc \notin {"sharpe", "skew"}

PastKurtosis == pc \notin {"sharpe", "skew", "kurtosis"}

\* the sample standard deviations test_std_calculation computes
SampleStds(r) == {r.pandas_default, r.pandas_ddof1, r.manual_sample, r.numpy_ddof1}

BothRunsDefined ==
    /\ pc = "done"
    /\ IsSet(prev)
    /\ ~IsNaN(prev.sigma_sr)
    /\ ~IsNaN(sigma_sr)

Monotone == NLe(prev.ratio, ratio) /\ CdfLe(prev.psr, psr)

SkewSharpeAtMostTwo(sr) == NLe(NMul(skew_val, sr), Z(2))

\* C7 as claimed: for Sharpe ratios sr1 < sr2 with sigma_sr defined, z = sr /
\* sigma_sr and the PSR do not decrease, whatever skew * sr is.
C7_MonotoneEverywhere == BothRunsDefined => Monotone

\* C7 as amended: z and the PSR do not decrease from sr1 to sr2 when
\* skew * sr1 <= 2 and skew * sr2 <= 2.
C7_MonotoneSkewSharpeAtMostTwo ==
    (BothRunsDefined /\ SkewSharpeAtMostTwo(prev.sharpe_val)
         /\ SkewSharpeAtMostTwo(sharpe_val)) => Monotone

\* a skewed case within the bound, where z and the PSR rise
C7_Witness ==
    /\ BothRunsDefined
    /\ ~IsZero(skew_val)
    /\ NLt(Z(0), NMul(skew_val, prev.sharpe_val))
    /\ SkewSharpeAtMostTwo(prev.sharpe_val)
    /\ SkewSharpeAtMostTwo(sharpe_val)
    /\ NLt(prev.ratio, ratio)
    /\ psr # prev.psr

=============================================================================
